---- MODULE Spec2Model ----
(***************************************************************************)
(* BroadcastEnumerator (src/plugins/broadcast/broadcastenumerator.cpp):    *)
(* LAN peer discovery over UDP broadcast.  One object owns a UDP socket,   *)
(* a broadcast timer, an expiry timer and the table mDevices; its four     *)
(* slots (onBroadcastTimeout, onExpiryTimeout, onReadyRead,                *)
(* onSettingsChanged) run to completion on one event loop.                 *)
(***************************************************************************)
EXTENDS Integers, Sequences, FiniteSets, Bags, TLC

(***************************************************************************)
(* Bounds of the model.                                                    *)
(***************************************************************************)
\* The clock QDateTime::currentMSecsSinceEpoch() runs over 0..MaxTime.
MaxTime == 2
\* At most MaxPending datagrams are buffered on the socket.
MaxPending == 2

(***************************************************************************)
(* Settings keys (lines 43-45) and the values the settings store may hold. *)
(***************************************************************************)
BroadcastInterval == "BroadcastInterval"
BroadcastExpiry == "BroadcastExpiry"
BroadcastPort == "BroadcastPort"
\* A key of another component, carried by the same change notification.
OtherKey == "Other"

Ports == {1, 2}
\* The port the library gives a socket that sends before it was bound.
EphemeralPort == 3
\* The values of BroadcastInterval and of BroadcastExpiry, in clock units.
SettingValues == {1, 2}
\* The changed-key lists a notification may carry.
KeySets == (SUBSET {BroadcastInterval, BroadcastExpiry, BroadcastPort}) \cup {{OtherKey}}

(***************************************************************************)
(* Variant values and maps (QVariant, QVariantMap).                        *)
(***************************************************************************)
Str(s) == [t |-> "string", v |-> <<s>>]
StrList(l) == [t |-> "list", v |-> l]
Invalid == [t |-> "invalid", v |-> <<>>]
EmptyMap == <<>>

\* QVariant::toString(): a string converts to itself, anything else the
\* model holds (a list, an invalid variant) to the empty string.
VariantToString(x) == IF x.t = "string" THEN x.v[1] ELSE ""

\* QVariantMap::insert: adds the key or replaces its value.
MapInsert(m, k, x) == [y \in (DOMAIN m) \cup {k} |-> IF y = k THEN x ELSE m[y]]
\* QVariantMap::take: the value removed (a default variant when absent) ...
MapTakeValue(m, k) == IF k \in DOMAIN m THEN m[k] ELSE Invalid
\* ... and the map that is left.
MapTakeRest(m, k) == [y \in (DOMAIN m) \ {k} |-> m[y]]

(***************************************************************************)
(* Host addresses.  A QHostAddress is held as a number; toString() gives   *)
(* its dotted form.                                                        *)
(***************************************************************************)
NullAddress == 0
BroadcastAddresses == {1, 2, 3}
AddressToString(a) ==
    CASE a = 11 -> "10.0.0.11"
      [] a = 12 -> "10.0.0.12"
      [] OTHER -> ""

(***************************************************************************)
(* Datagram payloads: bytes that are a JSON object, or anything else.      *)
(***************************************************************************)
JsonObject(fields) == [kind |-> "object", fields |-> fields]
NotJson == [kind |-> "garbage", fields |-> EmptyMap]

\* QJsonDocument::fromJson(data).object().toVariantMap(): the members of
\* the object; a parse error or a non-object document gives an empty map.
FromJson(data) == IF data.kind = "object" THEN data.fields ELSE EmptyMap

PayloadAlice ==
    JsonObject(("uuid" :> Str("A")) @@ ("name" :> Str("Alice")) @@ ("extra" :> Str("x")))
PayloadBob ==
    JsonObject(("uuid" :> Str("B")) @@ ("name" :> Str("Bob"))
                   @@ ("addresses" :> StrList(<<"9.9.9.9">>)))
PayloadNoUuid == JsonObject(("name" :> Str("Nobody")))

\* What can arrive: payload and sender address.
Datagrams ==
    { [data |-> PayloadAlice, sender |-> 11],
      [data |-> PayloadBob, sender |-> 12],
      [data |-> PayloadNoUuid, sender |-> 11],
      [data |-> NotJson, sender |-> 12] }
\* The datagram of the scenarios that are not about decoding.
Announcement == [data |-> PayloadAlice, sender |-> 11]

\* The ids the receive handler can report.
Ids == {"A", "B", ""}
\* Those of them that name a peer.
PeerIds == {"A", "B"}
NoTime == -1

(***************************************************************************)
(* Network interfaces, as QNetworkInterface::allInterfaces() returns them: *)
(* a list of interfaces, each with the CanBroadcast flag and the broadcast *)
(* address of each of its address entries (null for an entry without one). *)
(***************************************************************************)
Interface(flag, entries) == [canBroadcast |-> flag, entries |-> entries]
InterfaceConfigs ==
    { << Interface(FALSE, <<2>>), Interface(TRUE, <<NullAddress>>) >>,
      << Interface(TRUE, <<1, 2>>), Interface(TRUE, <<NullAddress, 2, 3>>) >> }

(***************************************************************************)
(* State.                                                                  *)
(***************************************************************************)
VARIABLES
    now,              \* QDateTime::currentMSecsSinceEpoch()
    settings,         \* the settings registry: value(key) of the three keys
    mBroadcastTimer,  \* [active, interval]
    mExpiryTimer,     \* [active, interval]
    mSocket,          \* [state, port, pending]: pending datagrams, oldest first
    mDevices,         \* the device table: uuid -> time last seen
    constructed,      \* the constructor has run
    running,          \* the process has not crashed
    lastSeenAt,       \* history: when a datagram of each uuid was last handled
    last              \* history: what the last handler did

vars ==
    << now, settings, mBroadcastTimer, mExpiryTimer, mSocket, mDevices,
       constructed, running, lastSeenAt, last >>

Unconnected == [state |-> "Unconnected", port |-> 0, pending |-> <<>>]
BoundTo(p) == [state |-> "Bound", port |-> p, pending |-> <<>>]

\* The record of a handler that did nothing observable.
Nothing(op) ==
    [ op |-> op, keys |-> {}, emitted |-> <<>>, consumed |-> <<>>,
      written |-> EmptyBag, interfaces |-> <<>>, logged |-> 0,
      broadcasts |-> 0, sweeps |-> 0, bindOk |-> TRUE, sameInterval |-> FALSE,
      port |-> 0, intervalCalls |-> <<>>, expiryCalls |-> <<>> ]

(***************************************************************************)
(* onBroadcastTimeout (lines 74-99).                                       *)
(***************************************************************************)
RECURSIVE EntryAddresses(_)
\* lines 80-84: the non-null broadcast addresses of one interface's entries
EntryAddresses(entries) ==
    IF entries = <<>> THEN {}
    ELSE (IF Head(entries) # NullAddress THEN {Head(entries)} ELSE {})
             \cup EntryAddresses(Tail(entries))

RECURSIVE CollectAddresses(_)
\* lines 77-86: the QSet of broadcast addresses of the CanBroadcast interfaces
CollectAddresses(ifs) ==
    IF ifs = <<>> THEN {}
    ELSE (IF Head(ifs).canBroadcast THEN EntryAddresses(Head(ifs).entries) ELSE {})
             \cup CollectAddresses(Tail(ifs))

\* As Broadcast, but the loop of lines 96-98 returns at the first send that
\* fails (the addresses taken in increasing order).
BroadcastStopsAtFailure(sock, ifs, failing, first) ==
    LET addresses == CollectAddresses(ifs)
        reached == { a \in addresses : \A f \in failing \cap addresses : a <= f }
    IN  [ socket |-> sock,
          written |-> SetToBag({ [address |-> a, port |-> sock.port,
                                  ok |-> a \notin failing] : a \in reached }) ]

\* lines 95-98: one writeDatagram per address of the set, its result ignored.
\* The destination port is mSocket.localPort(), read anew for each write.
\* A write on a socket that is not bound may make the library bind it to a
\* port of its own choice: first is the address whose write did so
\* (NullAddress: the library left the socket unbound).
Broadcast(sock, ifs, failing, first) ==
    LET addresses == CollectAddresses(ifs)
        binds == sock.state = "Unconnected" /\ first \in addresses
        portFor(a) == IF binds /\ a # first THEN EphemeralPort ELSE sock.port
    IN  [ socket |-> IF binds THEN BoundTo(EphemeralPort) ELSE sock,
          written |-> SetToBag({ [address |-> a, port |-> portFor(a),
                                  ok |-> a \notin failing] : a \in addresses }) ]

\* The sends that fail in one broadcast: none, any one, or all of them.
FailingChoices(addresses) == {{}, addresses} \cup { {a} : a \in addresses }

\* The inputs of one broadcast: the interfaces, the addresses whose send
\* fails, the write that binds an unbound socket.
BroadcastInputs(sock) ==
    UNION { { [ifs |-> i, failing |-> f, first |-> a] :
                f \in FailingChoices(CollectAddresses(i)),
                a \in {NullAddress} \cup
                      (IF sock.state = "Unconnected" THEN CollectAddresses(i) ELSE {}) } :
            i \in InterfaceConfigs }
NoBroadcast == [ifs |-> <<>>, failing |-> {}, first |-> NullAddress]

(***************************************************************************)
(* onExpiryTimeout (lines 101-116).                                        *)
(***************************************************************************)
\* The orders in which a container may hand out its keys.
Orders(S) ==
    { o \in [1..Cardinality(S) -> S] : \A i, j \in 1..Cardinality(S) : o[i] = o[j] => i = j }

DeviceRemoved(uuid) == [signal |-> "deviceRemoved", uuid |-> uuid, properties |-> EmptyMap]

RECURSIVE SweepFrom(_, _, _, _, _)
\* lines 109-115, from the k-th key of the iteration on.  A record with
\* ms - value > expiry is erased (line 111).  The iterator i is then
\* dangling, and lines 112 and 114 use it: the key read for the signal may
\* be any uuid, the iteration may go on at any later record or stop, and
\* either use may crash the process.
SweepFrom(order, k, devs, ms, expiry) ==
    IF k > Len(order)
    THEN { [devices |-> devs, emitted |-> <<>>, crashed |-> FALSE] }
    ELSE IF ms - devs[order[k]] > expiry
    THEN LET erased == [u \in (DOMAIN devs) \ {order[k]} |-> devs[u]]
         IN  { [devices |-> erased, emitted |-> <<>>, crashed |-> TRUE] }
             \cup { [devices |-> erased, emitted |-> <<DeviceRemoved(key)>>,
                     crashed |-> TRUE] : key \in Ids }
             \cup UNION { { [r EXCEPT !.emitted = <<DeviceRemoved(key)>> \o r.emitted] :
                              r \in SweepFrom(order, next, erased, ms, expiry) } :
                            key \in Ids, next \in (k + 1)..(Len(order) + 1) }
    ELSE SweepFrom(order, k + 1, devs, ms, expiry)

\* The outcomes of one sweep of the table at time ms.
Sweep(devs, ms, expiry) ==
    UNION { SweepFrom(o, 1, devs, ms, expiry) : o \in Orders(DOMAIN devs) }
NoSweep == [devices |-> mDevices, emitted |-> <<>>, crashed |-> FALSE]

(***************************************************************************)
(* onReadyRead (lines 118-138).                                            *)
(***************************************************************************)
\* As DeviceUpdated, but an "addresses" member of the payload is kept
\* instead of being replaced by the sender's address.
DeviceUpdatedTrustsPayload(datagram) ==
    LET decoded == FromJson(datagram.data)
        properties ==
            IF "addresses" \in DOMAIN decoded THEN decoded
            ELSE MapInsert(decoded, "addresses",
                           StrList(<<AddressToString(datagram.sender)>>))
    IN  [ signal |-> "deviceUpdated",
          uuid |-> VariantToString(MapTakeValue(properties, "uuid")),
          properties |-> MapTakeRest(properties, "uuid") ]

\* lines 131-136: the signal emitted for one datagram
DeviceUpdated(datagram) ==
    LET decoded == FromJson(datagram.data)
        properties ==
            MapInsert(decoded, "addresses", StrList(<<AddressToString(datagram.sender)>>))
    IN  [ signal |-> "deviceUpdated",
          uuid |-> VariantToString(MapTakeValue(properties, "uuid")),
          properties |-> MapTakeRest(properties, "uuid") ]

RECURSIVE ReadAllNewestFirst(_)
\* As ReadAll, but the datagram that arrived last is handled first.
ReadAllNewestFirst(pending) ==
    IF pending = <<>> THEN <<>>
    ELSE ReadAllNewestFirst(Tail(pending)) \o <<DeviceUpdated(Head(pending))>>

RECURSIVE ReadAllDropsMalformed(_)
\* As ReadAll, but a payload that is not a JSON object gives no signal.
ReadAllDropsMalformed(pending) ==
    IF pending = <<>> THEN <<>>
    ELSE (IF Head(pending).data.kind = "object"
          THEN <<DeviceUpdated(Head(pending))>> ELSE <<>>)
         \o ReadAllDropsMalformed(Tail(pending))

RECURSIVE ReadAll(_)
\* lines 120-137: the signals of a run of the loop over the pending datagrams
ReadAll(pending) ==
    IF pending = <<>> THEN <<>>
    ELSE <<DeviceUpdated(Head(pending))>> \o ReadAll(Tail(pending))

\* The table after the loop: no line of onReadyRead writes mDevices.
DevicesAfterRead(devs, signals, ms) == devs

\* History: the time of the last signal of each uuid; a removal clears it.
RECURSIVE Seen(_, _, _)
Seen(seen, signals, ms) ==
    IF signals = <<>> THEN seen
    ELSE Seen([seen EXCEPT ![Head(signals).uuid] =
                   IF Head(signals).signal = "deviceUpdated" THEN ms ELSE NoTime],
              Tail(signals), ms)

(***************************************************************************)
(* onSettingsChanged (lines 140-171).                                      *)
(***************************************************************************)
SettingsStates ==
    { (BroadcastInterval :> i) @@ (BroadcastExpiry :> e) @@ (BroadcastPort :> p) :
        i \in SettingValues, e \in SettingValues, p \in Ports }

\* line 161: close() drops the binding and whatever was buffered
Close(sock) == Unconnected

\* lines 162-163: bind(QHostAddress::Any, port).  It succeeds on a socket
\* that is not bound when the port is free; otherwise the socket is left as
\* it was and bind returns false.
Bind(sock, port, free) ==
    IF sock.state = "Unconnected" /\ free
    THEN [socket |-> BoundTo(port), ok |-> TRUE]
    ELSE [socket |-> sock, ok |-> FALSE]

\* As Rebind, but without the close() of line 161 taking effect: what the
\* old socket had buffered is still there after the bind.
RebindKeepsBuffer(sock, port, free) ==
    IF free
    THEN [socket |-> [state |-> "Bound", port |-> port, pending |-> sock.pending],
          ok |-> TRUE]
    ELSE [socket |-> Unconnected, ok |-> FALSE]

\* lines 160-170: the socket after the reaction to BroadcastPort
Rebind(sock, port, free) == Bind(Close(sock), port, free)

\* As BindErrors, but a failed bind is not logged.
BindErrorsSilent(ok) == 0

\* lines 162-169: the number of messages logged for a bind that returned ok
BindErrors(ok) == IF ok THEN 0 ELSE 1

\* QTimer::stop, setInterval and start
TimerStop(timer) == [timer EXCEPT !.active = FALSE]
TimerSetInterval(timer, interval) == [timer EXCEPT !.interval = interval]
TimerStart(timer) == [timer EXCEPT !.active = TRUE]

\* As RestartCalls, but the interval is set before the timer is stopped.
RestartCallsSetFirst(timer, interval, handler) ==
    LET t1 == TimerSetInterval(timer, interval)
        t2 == TimerStop(t1)
    IN  << [call |-> "setInterval", active |-> timer.active],
           [call |-> "stop", active |-> t1.active],
           [call |-> handler, active |-> t2.active],
           [call |-> "start", active |-> t2.active] >>

\* lines 143-148 and 152-157: the calls of the reaction to a timer's key, in
\* the order of the code, each with whether the timer is active when the
\* call is made; handler is the slot called between setInterval and start.
RestartCalls(timer, interval, handler) ==
    LET t1 == TimerStop(timer)
        t2 == TimerSetInterval(t1, interval)
    IN  << [call |-> "stop", active |-> timer.active],
           [call |-> "setInterval", active |-> t1.active],
           [call |-> handler, active |-> t2.active],
           [call |-> "start", active |-> t2.active] >>

\* As RestartedTimer, but the start() of line 148 is missing.
RestartedTimerNotStarted(timer, interval) ==
    TimerSetInterval(TimerStop(timer), interval)

\* lines 143-148: the broadcast timer after the reaction to BroadcastInterval
RestartedTimer(timer, interval) ==
    TimerStart(TimerSetInterval(TimerStop(timer), interval))

\* As Contains, but any change notification is taken to name the key.
ContainsAlways(keys, key) == TRUE

\* lines 142, 151, 160: keys.contains(key)
Contains(keys, key) == key \in keys

\* The whole handler, for the changed keys `keys`, with the registry holding
\* cfg.  bin: the inputs of the broadcast of line 147; sw: the outcome of
\* the sweep of line 156; free: whether the port of line 163 can be bound.
\* A sweep that crashes ends the handler at line 156.
SettingsChanged(op, keys, cfg, bin, sw, free) ==
    LET doInterval == Contains(keys, BroadcastInterval)
        doExpiry == Contains(keys, BroadcastExpiry)
        crashed == doExpiry /\ sw.crashed
        doPort == Contains(keys, BroadcastPort) /\ ~crashed
        b == IF doInterval
             THEN Broadcast(mSocket, bin.ifs, bin.failing, bin.first)
             ELSE [socket |-> mSocket, written |-> EmptyBag]
        bound == IF doPort
                 THEN Rebind(b.socket, cfg[BroadcastPort], free)
                 ELSE [socket |-> b.socket, ok |-> TRUE]
    IN  /\ settings' = cfg
        /\ mBroadcastTimer' =
               IF doInterval
               THEN RestartedTimer(mBroadcastTimer, cfg[BroadcastInterval])
               ELSE mBroadcastTimer
        /\ mExpiryTimer' =
               IF doExpiry
               THEN [active |-> ~crashed, interval |-> cfg[BroadcastExpiry]]
               ELSE mExpiryTimer
        /\ mSocket' = bound.socket
        /\ mDevices' = IF doExpiry THEN sw.devices ELSE mDevices
        /\ running' = ~crashed
        /\ lastSeenAt' = Seen(lastSeenAt, sw.emitted, now)
        /\ last' = [ Nothing(op) EXCEPT
                       !.keys = keys,
                       !.emitted = sw.emitted,
                       !.written = b.written,
                       !.interfaces = bin.ifs,
                       !.logged = IF doPort THEN BindErrors(bound.ok) ELSE 0,
                       !.broadcasts = IF doInterval THEN 1 ELSE 0,
                       !.sweeps = IF doExpiry THEN 1 ELSE 0,
                       !.bindOk = bound.ok,
                       !.port = mSocket.port,
                       !.intervalCalls =
                           IF doInterval
                           THEN RestartCalls(mBroadcastTimer, cfg[BroadcastInterval],
                                             "onBroadcastTimeout")
                           ELSE <<>>,
                       !.expiryCalls =
                           IF doExpiry
                           THEN SubSeq(RestartCalls(mExpiryTimer, cfg[BroadcastExpiry],
                                                    "onExpiryTimeout"),
                                       1, IF crashed THEN 3 ELSE 4)
                           ELSE <<>>,
                       !.sameInterval =
                           doInterval /\ mBroadcastTimer.active
                           /\ mBroadcastTimer.interval = cfg[BroadcastInterval] ]

\* The inputs of the handler that its keys call for.
BroadcastChoices(keys) ==
    IF BroadcastInterval \in keys THEN BroadcastInputs(mSocket) ELSE {NoBroadcast}
SweepChoices(keys, cfg) ==
    IF BroadcastExpiry \in keys THEN Sweep(mDevices, now, cfg[BroadcastExpiry]) ELSE {NoSweep}
BindChoices(keys) == IF BroadcastPort \in keys THEN BOOLEAN ELSE {TRUE}

(***************************************************************************)
(* The state machine.                                                      *)
(***************************************************************************)
Init ==
    /\ now = 0
    /\ settings \in SettingsStates
    /\ mBroadcastTimer = [active |-> FALSE, interval |-> 0]
    /\ mExpiryTimer = [active |-> FALSE, interval |-> 0]
    /\ mSocket = Unconnected
    /\ mDevices = EmptyMap
    /\ constructed = FALSE
    /\ running = TRUE
    /\ lastSeenAt = [u \in Ids |-> NoTime]
    /\ last = Nothing("none")

\* lines 47-65: the constructor loads the settings by calling
\* onSettingsChanged with the three keys.
Constructor ==
    /\ ~constructed
    /\ constructed' = TRUE
    /\ now' = now
    /\ LET keys == {BroadcastInterval, BroadcastExpiry, BroadcastPort}
       IN  \E bin \in BroadcastChoices(keys), sw \in SweepChoices(keys, settings),
              free \in BindChoices(keys) :
               SettingsChanged("constructor", keys, settings, bin, sw, free)

\* The settings store changes the values of the keys of one of the lists
\* of K and notifies.
SettingsChangedWith(K) ==
    /\ constructed /\ running
    /\ UNCHANGED << now, constructed >>
    /\ \E keys \in K :
       \E cfg \in { c \in SettingsStates :
                      \A k \in DOMAIN c : k \notin keys => c[k] = settings[k] } :
       \E bin \in BroadcastChoices(keys), sw \in SweepChoices(keys, cfg),
          free \in BindChoices(keys) :
           SettingsChanged("settingsChanged", keys, cfg, bin, sw, free)

OnSettingsChanged == SettingsChangedWith(KeySets)

\* mBroadcastTimer fires.
OnBroadcastTimeout ==
    /\ constructed /\ running /\ mBroadcastTimer.active
    /\ \E bin \in BroadcastInputs(mSocket) :
         LET b == Broadcast(mSocket, bin.ifs, bin.failing, bin.first)
         IN  /\ mSocket' = b.socket
             /\ last' = [ Nothing("broadcastTimeout") EXCEPT
                            !.written = b.written,
                            !.interfaces = bin.ifs,
                            !.broadcasts = 1 ]
    /\ UNCHANGED << now, settings, mBroadcastTimer, mExpiryTimer, mDevices,
                    constructed, running, lastSeenAt >>

\* mExpiryTimer fires.
OnExpiryTimeout ==
    /\ constructed /\ running /\ mExpiryTimer.active
    /\ \E sw \in Sweep(mDevices, now, settings[BroadcastExpiry]) :
         /\ mDevices' = sw.devices
         /\ running' = ~sw.crashed
         /\ lastSeenAt' = Seen(lastSeenAt, sw.emitted, now)
         /\ last' = [ Nothing("expiryTimeout") EXCEPT
                        !.emitted = sw.emitted, !.sweeps = 1 ]
    /\ UNCHANGED << now, settings, mBroadcastTimer, mExpiryTimer, mSocket, constructed >>

\* The socket signals readyRead: the handler drains it.
OnReadyRead ==
    /\ constructed /\ running /\ mSocket.pending # <<>>
    /\ LET signals == ReadAll(mSocket.pending)
       IN  /\ mSocket' = [mSocket EXCEPT !.pending = <<>>]
           /\ mDevices' = DevicesAfterRead(mDevices, signals, now)
           /\ lastSeenAt' = Seen(lastSeenAt, signals, now)
           /\ last' = [ Nothing("readyRead") EXCEPT
                          !.emitted = signals, !.consumed = mSocket.pending ]
    /\ UNCHANGED << now, settings, mBroadcastTimer, mExpiryTimer, constructed, running >>

\* A datagram of D for destination port `port` reaches this host: the socket
\* buffers it when it is bound to that port, and it is lost otherwise.
ArriveFrom(D) ==
    /\ constructed /\ running
    /\ \E port \in Ports \cup {EphemeralPort} :
         IF mSocket.state = "Bound" /\ mSocket.port = port
         THEN /\ Len(mSocket.pending) < MaxPending
              /\ \E d \in D :
                   mSocket' = [mSocket EXCEPT !.pending =
                       Append(@, [data |-> d.data, sender |-> d.sender, port |-> port])]
              /\ last' = [Nothing("arrived") EXCEPT !.port = port]
         ELSE /\ mSocket' = mSocket
              /\ last' = [Nothing("lost") EXCEPT !.port = port]
    /\ UNCHANGED << now, settings, mBroadcastTimer, mExpiryTimer, mDevices,
                    constructed, running, lastSeenAt >>

Arrive == ArriveFrom(Datagrams)

\* Time passes.
Tick ==
    /\ now < MaxTime
    /\ now' = now + 1
    /\ last' = Nothing("tick")
    /\ UNCHANGED << settings, mBroadcastTimer, mExpiryTimer, mSocket, mDevices,
                    constructed, running, lastSeenAt >>

Next ==
    \/ Constructor
    \/ OnSettingsChanged
    \/ OnBroadcastTimeout
    \/ OnExpiryTimeout
    \/ OnReadyRead
    \/ Arrive
    \/ Tick

Spec == Init /\ [][Next]_vars

(***************************************************************************)
(* The same machine in two narrower environments.                          *)
(***************************************************************************)
\* Discovery: datagrams of every kind arrive, time passes, the expiry timer
\* fires and the expiry duration is reconfigured.
OnExpiryChanged == SettingsChangedWith({{BroadcastExpiry}})
NextDiscovery ==
    \/ Constructor
    \/ OnExpiryChanged
    \/ OnExpiryTimeout
    \/ OnReadyRead
    \/ Arrive
    \/ Tick
SpecDiscovery == Init /\ [][NextDiscovery]_vars

\* Configuration: every change notification, the broadcast timer, and one
\* kind of datagram, at a fixed time.
ArriveAnnouncement == ArriveFrom({Announcement})
NextConfig ==
    \/ Constructor
    \/ OnSettingsChanged
    \/ OnBroadcastTimeout
    \/ OnReadyRead
    \/ ArriveAnnouncement
SpecConfig == Init /\ [][NextConfig]_vars

\* Discovery with the scheduling the event loop gives: an active expiry
\* timer keeps firing, and the clock keeps running.
FairDiscovery == SpecDiscovery /\ WF_vars(OnExpiryTimeout) /\ WF_vars(Tick)

(***************************************************************************)
(* Properties.                                                             *)
(***************************************************************************)
HandledSettings == last.op \in {"constructor", "settingsChanged"}

\* The number of deviceRemoved(u) among the signals.
Removals(signals, u) ==
    Cardinality({ i \in 1..Len(signals) : signals[i] = DeviceRemoved(u) })

\* A record of u is due for removal: u was last seen more than the expiry
\* duration ago and has not been reported removed since.
Overdue(u) ==
    lastSeenAt[u] # NoTime /\ now - lastSeenAt[u] > settings[BroadcastExpiry]

\* C1. Expiry invariant: a step that runs a sweep at a time when
\* now - lastSeenAt > expiry holds for an id leaves no record of that id in
\* the table and emits exactly one deviceRemoved for it.  (The sweep reads
\* the expiry duration the registry holds when it runs.)
C1_ExpiryInvariant ==
    [][ last'.sweeps = 1 =>
          \A u \in PeerIds :
              (lastSeenAt[u] # NoTime /\ now' - lastSeenAt[u] > settings'[BroadcastExpiry])
                  => /\ u \notin DOMAIN mDevices'
                     /\ Removals(last'.emitted, u) = 1 ]_vars

\* C2. A silent peer is eventually removed: with the expiry timer firing,
\* an id that is overdue does not stay so for ever; it is reported removed
\* (unless a new datagram or a longer expiry duration ends its being due).
C2_SilentPeerRemoved == \A u \in PeerIds : Overdue(u) ~> ~Overdue(u)

\* C3. Upsert on receipt: when onReadyRead has handled a datagram of uuid X
\* at time t, the table holds X with the time t.
C3_UpsertOnReceipt ==
    last.op = "readyRead" =>
        \A i \in 1..Len(last.emitted) :
            last.emitted[i].uuid \in PeerIds =>
                /\ last.emitted[i].uuid \in DOMAIN mDevices
                /\ mDevices[last.emitted[i].uuid] = now

\* C4. Refresh resets expiry: an id whose last datagram is no older than
\* the expiry duration has its record in the table, and the last handler
\* reported no removal of it.
C4_RefreshKeepsRecord ==
    \A u \in PeerIds :
        (lastSeenAt[u] # NoTime /\ now - lastSeenAt[u] <= settings[BroadcastExpiry])
            => /\ u \in DOMAIN mDevices
               /\ Removals(last.emitted, u) = 0

\* C5. Every datagram a broadcast writes, from the timer, from a
\* reconfiguration or from the constructor, has the configured
\* BroadcastPort as its destination port.
C5_BroadcastToConfiguredPort ==
    \A w \in BagToSet(last.written) : w.port = settings[BroadcastPort]

\* C6. Idempotent reconfiguration: a notification of BroadcastInterval
\* whose value is the one the running timer already has sends no broadcast.
C6_IdempotentInterval ==
    (last.op = "settingsChanged" /\ last.sameInterval) => last.broadcasts = 0

\* The broadcast addresses of the broadcast-capable interfaces.
ExpectedAddresses(ifs) ==
    { a \in BroadcastAddresses :
        \E i \in 1..Len(ifs) :
            /\ ifs[i].canBroadcast
            /\ \E j \in 1..Len(ifs[i].entries) : ifs[i].entries[j] = a }

\* The number of sends of the last handler to address a.
AttemptsTo(a) ==
    LET to == { w \in BagToSet(last.written) : w.address = a }
    IN  IF to = {} THEN 0 ELSE BagCardinality([w \in to |-> last.written[w]])

\* C7. Partial send failure isolation: a broadcast attempts exactly one
\* send to each distinct broadcast address of the broadcast-capable
\* interfaces, and none to any other address, whichever sends fail.
C7_OneSendPerAddress ==
    last.broadcasts = 1 =>
        \A a \in BroadcastAddresses :
            AttemptsTo(a) = IF a \in ExpectedAddresses(last.interfaces) THEN 1 ELSE 0

\* C7 witness: three addresses, one of them shared by two interfaces; the
\* send to one fails and the two others are sent.
C7_Witness ==
    /\ last.broadcasts = 1
    /\ ExpectedAddresses(last.interfaces) = {1, 2, 3}
    /\ \E i, j \in 1..Len(last.interfaces) :
           /\ i # j
           /\ \E a \in BroadcastAddresses :
                  /\ \E k \in 1..Len(last.interfaces[i].entries) :
                         last.interfaces[i].entries[k] = a
                  /\ \E k \in 1..Len(last.interfaces[j].entries) :
                         last.interfaces[j].entries[k] = a
    /\ Cardinality({ w \in BagToSet(last.written) : ~w.ok }) = 1
    /\ Cardinality({ w \in BagToSet(last.written) : w.ok }) = 2

\* C8. Port change rebinds: after a notification of BroadcastPort whose
\* bind succeeds the socket is bound to the new port with nothing of the
\* old socket buffered; whatever is buffered or read was addressed to the
\* port the socket is bound to, so a datagram for the old port gives no
\* deviceUpdated and each datagram read gives one.
C8_PortChangeRebinds ==
    /\ (HandledSettings /\ BroadcastPort \in last.keys /\ last.bindOk)
           => mSocket = BoundTo(settings[BroadcastPort])
    /\ \A i \in 1..Len(mSocket.pending) : mSocket.pending[i].port = mSocket.port
    /\ last.op = "readyRead" =>
           /\ Len(last.emitted) = Len(last.consumed)
           /\ \A i \in 1..Len(last.consumed) :
                  /\ last.consumed[i].port = mSocket.port
                  /\ last.emitted[i].signal = "deviceUpdated"
    /\ last.op = "lost" => (mSocket.state # "Bound" \/ mSocket.port # last.port)

\* C8 witness: a notification moved a bound socket to the other port.
C8_Witness ==
    /\ last.op = "settingsChanged"
    /\ BroadcastPort \in last.keys
    /\ last.bindOk
    /\ last.port \in Ports
    /\ last.port # settings[BroadcastPort]
    /\ mSocket = BoundTo(settings[BroadcastPort])

\* C9. A bind failure is reported and is not fatal: the reaction to
\* BroadcastPort logs one error exactly when the bind fails, and then the
\* socket is unbound, both timers are active and the process runs; when the
\* bind succeeds, whatever the socket was before, it is bound to the port.
C9_BindFailureReported ==
    (HandledSettings /\ BroadcastPort \in last.keys) =>
        IF last.bindOk
        THEN last.logged = 0 /\ mSocket.state = "Bound"
             /\ mSocket.port = settings[BroadcastPort]
        ELSE /\ last.logged = 1
             /\ mSocket = Unconnected
             /\ mBroadcastTimer.active /\ mExpiryTimer.active
             /\ running

\* C9 witness: a notification of BroadcastPort on a bound socket whose bind
\* failed.
C9_Witness ==
    /\ last.op = "settingsChanged"
    /\ BroadcastPort \in last.keys
    /\ ~last.bindOk
    /\ last.port \in Ports
    /\ last.logged = 1

\* C10. Decoded event content: for a datagram whose payload is an object,
\* the signal's uuid is the payload's uuid member (the empty string when it
\* has none) and its properties are the other members of the payload, with
\* "addresses" set to the list of the sender's address alone.
C10_DecodedEventContent ==
    last.op = "readyRead" =>
        /\ Len(last.emitted) = Len(last.consumed)
        /\ \A i \in 1..Len(last.consumed) :
               LET d == last.consumed[i]
                   e == last.emitted[i]
               IN  d.data.kind = "object" =>
                       /\ e.uuid = IF "uuid" \in DOMAIN d.data.fields
                                   THEN d.data.fields["uuid"].v[1] ELSE ""
                       /\ DOMAIN e.properties =
                              ((DOMAIN d.data.fields) \ {"uuid"}) \cup {"addresses"}
                       /\ \A k \in (DOMAIN d.data.fields) \ {"uuid", "addresses"} :
                              e.properties[k] = d.data.fields[k]
                       /\ e.properties["addresses"] =
                              StrList(<<AddressToString(d.sender)>>)

\* C10 witness: one run of the handler read a payload with an extra member
\* and a payload that claims addresses of its own.
C10_Witness ==
    /\ last.op = "readyRead"
    /\ \E i, j \in 1..Len(last.consumed) :
           /\ "extra" \in DOMAIN last.consumed[i].data.fields
           /\ "addresses" \in DOMAIN last.consumed[j].data.fields
           /\ last.emitted[j].properties["addresses"] = StrList(<<"10.0.0.12">>)

\* C11. Drain on readability: when onReadyRead returns, the socket has no
\* datagram pending, and the handler has emitted one deviceUpdated for each
\* datagram it consumed, in the order of arrival: the i-th signal carries
\* the sender and the uuid of the i-th datagram.
C11_DrainOnReadability ==
    last.op = "readyRead" =>
        /\ mSocket.pending = <<>>
        /\ Len(last.consumed) > 0
        /\ Len(last.emitted) = Len(last.consumed)
        /\ \A i \in 1..Len(last.emitted) :
               LET d == last.consumed[i]
                   e == last.emitted[i]
               IN  /\ e.signal = "deviceUpdated"
                   /\ e.properties["addresses"] = StrList(<<AddressToString(d.sender)>>)
                   /\ (d.data.kind = "object" /\ "uuid" \in DOMAIN d.data.fields)
                          => e.uuid = d.data.fields["uuid"].v[1]

\* C11 witness: one run of the handler consumed two datagrams of different
\* senders and different uuids.
C11_Witness ==
    /\ last.op = "readyRead"
    /\ Len(last.consumed) = 2
    /\ last.consumed[1].sender # last.consumed[2].sender
    /\ last.emitted[1].uuid = "B"
    /\ last.emitted[2].uuid = "A"
    /\ mSocket.pending = <<>>

\* The names of the calls of a reaction, in order.
CallNames(calls) == [i \in 1..Len(calls) |-> calls[i].call]

\* C12. Interval reconfiguration order: the reaction to BroadcastInterval
\* stops the broadcast timer, sets its interval to the new value, makes one
\* broadcast and starts the timer, in this order; the interval is set and
\* the broadcast made while the timer is stopped; afterwards the timer runs
\* with the new value, and a later timer-driven broadcast happens with the
\* timer's interval equal to the setting.
C12_IntervalReconfigurationOrder ==
    /\ (HandledSettings /\ BroadcastInterval \in last.keys) =>
           /\ CallNames(last.intervalCalls)
                  = <<"stop", "setInterval", "onBroadcastTimeout", "start">>
           /\ \A i \in 2..4 : ~last.intervalCalls[i].active
           /\ last.broadcasts = 1
           /\ mBroadcastTimer =
                  [active |-> TRUE, interval |-> settings[BroadcastInterval]]
    /\ last.op = "broadcastTimeout" =>
           /\ mBroadcastTimer.active
           /\ mBroadcastTimer.interval = settings[BroadcastInterval]

\* C12 witness: a notification gave a running broadcast timer another
\* interval, and the immediate broadcast wrote a datagram.
C12_Witness ==
    /\ last.op = "settingsChanged"
    /\ BroadcastInterval \in last.keys
    /\ ~last.sameInterval
    /\ last.intervalCalls[1].active
    /\ last.written # EmptyBag
    /\ mBroadcastTimer = [active |-> TRUE, interval |-> settings[BroadcastInterval]]

\* C13. Expiry reconfiguration order: the reaction to BroadcastExpiry stops
\* the expiry timer, sets its interval to the new duration, runs one sweep
\* and starts the timer, in this order; the sweep uses the new duration, so
\* an id that is expired under the new duration has no record after this
\* step and is reported removed once by it.
C13_ExpiryReconfigurationOrder ==
    [][ (last'.op = "settingsChanged" /\ BroadcastExpiry \in last'.keys) =>
          /\ CallNames(last'.expiryCalls)
                 = <<"stop", "setInterval", "onExpiryTimeout", "start">>
          /\ \A i \in 2..4 : ~last'.expiryCalls[i].active
          /\ last'.sweeps = 1
          /\ mExpiryTimer' = [active |-> TRUE, interval |-> settings'[BroadcastExpiry]]
          /\ \A u \in PeerIds :
                 (lastSeenAt[u] # NoTime
                      /\ now' - lastSeenAt[u] > settings'[BroadcastExpiry])
                     => /\ u \notin DOMAIN mDevices'
                        /\ Removals(last'.emitted, u) = 1 ]_vars

FailedSends == { w \in BagToSet(last.written) : ~w.ok }

\* C15. Send failures are reported: the last handler logged one error for
\* each send of its broadcast that failed (besides the error of a failed
\* bind).
C15_SendFailuresReported ==
    last.logged >= Cardinality(FailedSends)
                     + (IF HandledSettings /\ BroadcastPort \in last.keys /\ ~last.bindOk
                        THEN 1 ELSE 0)

\* C16. Inert without a socket: after the constructor the socket's local
\* port is one of the configured ports exactly from a successful bind until
\* the next failed one; a step that starts outside such a period, i.e.
\* between a failed bind and the next successful one, sends no datagram
\* and emits no deviceUpdated.
C16_InertWithoutSocket ==
    [][ (constructed /\ mSocket.port \notin Ports) =>
          /\ \A w \in BagToSet(last'.written) : ~w.ok
          /\ \A i \in 1..Len(last'.emitted) :
                 last'.emitted[i].signal # "deviceUpdated" ]_vars

\* C17. Malformed payload is not dropped: for a datagram whose payload is
\* not a JSON object the handler emits one deviceUpdated with the empty
\* uuid and with "addresses", the sender's address alone, as its only
\* property, and it goes on to the datagrams behind it: there is one signal
\* for every datagram consumed.
C17_MalformedNotDropped ==
    last.op = "readyRead" =>
        /\ Len(last.emitted) = Len(last.consumed)
        /\ \A i \in 1..Len(last.consumed) :
               LET d == last.consumed[i]
               IN  d.data.kind # "object" =>
                       /\ last.emitted[i].signal = "deviceUpdated"
                       /\ last.emitted[i].uuid = ""
                       /\ DOMAIN last.emitted[i].properties = {"addresses"}
                       /\ last.emitted[i].properties["addresses"] =
                              StrList(<<AddressToString(d.sender)>>)

\* C17 witness: the handler read a payload that is no JSON object and,
\* behind it, the announcement of a peer.
C17_Witness ==
    /\ last.op = "readyRead"
    /\ Len(last.consumed) = 2
    /\ last.consumed[1].data = NotJson
    /\ last.emitted[1].uuid = ""
    /\ last.emitted[2].uuid \in PeerIds

\* C18. Sweep removes only expired records: a step that runs a sweep
\* removes the record of an id that has been heard of, and reports it
\* removed, exactly when now - lastSeenAt > expiry; otherwise the record is
\* in the table afterwards with the same time and no removal is reported;
\* a step that runs no sweep removes no record and reports no removal.
C18_SweepRemovesOnlyExpired ==
    [][ \A u \in PeerIds :
          IF last'.sweeps = 1
          THEN lastSeenAt[u] # NoTime =>
                 IF now' - lastSeenAt[u] > settings'[BroadcastExpiry]
                 THEN /\ u \notin DOMAIN mDevices'
                      /\ Removals(last'.emitted, u) = 1
                 ELSE /\ u \in DOMAIN mDevices'
                      /\ mDevices'[u] = lastSeenAt[u]
                      /\ Removals(last'.emitted, u) = 0
          ELSE /\ Removals(last'.emitted, u) = 0
               /\ u \in DOMAIN mDevices => u \in DOMAIN mDevices' ]_vars

\* C20. Timers are never left stopped: once the constructor has returned,
\* between handlers both timers are active and the interval of each is the
\* value of its setting.
C20_TimersNeverLeftStopped ==
    constructed =>
        /\ running
        /\ mBroadcastTimer = [active |-> TRUE, interval |-> settings[BroadcastInterval]]
        /\ mExpiryTimer = [active |-> TRUE, interval |-> settings[BroadcastExpiry]]

\* C20 witness: a notification gave both timers another interval while its
\* bind failed.
C20_Witness ==
    /\ last.op = "settingsChanged"
    /\ {BroadcastInterval, BroadcastExpiry, BroadcastPort} \subseteq last.keys
    /\ ~last.sameInterval
    /\ ~last.bindOk
    /\ mSocket = Unconnected
    /\ mBroadcastTimer.active /\ mExpiryTimer.active

====
